---- MODULE Spec2Model ----
(***************************************************************************)
(* Fileset writer of persist/fs: Open / Write / WriteAll / Close over the  *)
(* info, index, data and checkpoint files of a (shard, blockStart) block.  *)
(***************************************************************************)
EXTENDS Integers, Sequences, FiniteSets, TLC

VARIABLES
    wr,      \* writer instance(s): the fields of struct writer
    fs,      \* per block: the info, index, data files and the checkpoint flag
    dirs,    \* shard directories that exist under filePathPrefix
    last,    \* the most recent call: operation, result and its file-system steps
    cyc,     \* per writer: history of the calls made since the last Open
    calls,   \* number of calls made so far
    faults,  \* number of I/O failures that happened so far
    opt      \* the writerOptions objects allocated so far, by reference

vars == <<wr, fs, dirs, last, cyc, calls, faults, opt>>

----------------------------------------------------------------------------
(* Bounds of the exploration *)
MaxCalls == 4
MaxFaults == 1
MaxOpts == 3

Writers == {"w1"}
Shards == {0, 1}
Starts == {0, 1}
\* the (shard, blockStart) pairs callers open
Blocks == {<<0, 0>>, <<1, 1>>}
NoBlock == <<-1, -1>>
Keys == {"seriesA"}
BlockSizes == {2}
Kinds == <<"info", "index", "data">>

\* the byte slices a caller passes: empty, one byte, two bytes
Segs == {<<>>, <<1>>, <<2, 1>>}
\* the segment lists a caller passes: no segment, empty segments only, one
\* segment, several segments, an empty segment among others
SegLists == {<<>>, << <<>>, <<>> >>, << <<1>> >>, << <<1>>, <<2, 1>> >>,
             << <<2, 1>>, <<>> >>}

----------------------------------------------------------------------------
(* Files and handles *)

\* An *os.File: nil, open with a write offset, or closed.
NilFd == [st |-> "nil", blk |-> NoBlock, off |-> 0]
OpenFd(b) == [st |-> "open", blk |-> b, off |-> 0]
CloseFd(fd) == IF fd.st = "nil" THEN fd ELSE [fd EXCEPT !.st = "closed"]

NoFile == [exists |-> FALSE, content |-> <<>>]
EmptyFile == [exists |-> TRUE, content |-> <<>>]

\* ShardDirPath / filepathFromTime: one path per (shard, blockStart, suffix)
ShardDirPath(shard) == shard
filepathFromTime(shard, blockStart) == <<shard, blockStart>>

\* Cells of the info and index files
InfoRec(start, blockSize, entries) ==
    [t |-> "info", start |-> start, blockSize |-> blockSize, entries |-> entries]
IndexRec(idx, size) == [t |-> "entry", idx |-> idx, size |-> size]
TornInfo == [t |-> "torn", start |-> 0, blockSize |-> 0, entries |-> 0]
TornIndex == [t |-> "torn", idx |-> 0, size |-> 0]
HoleInfo == [t |-> "hole", start |-> 0, blockSize |-> 0, entries |-> 0]
HoleIndex == [t |-> "hole", idx |-> 0, size |-> 0]
HoleByte == 0

WriteAtEnd(content, off, new, hole) == content \o new

\* (*os.File).Write: the cells go to the handle's offset; a gap is zero-filled
WriteAt(content, off, new, hole) ==
    LET end == off + Len(new)
        n == IF end > Len(content) THEN end ELSE Len(content)
    IN [i \in 1..n |-> IF i > off /\ i <= end THEN new[i - off]
                       ELSE IF i <= Len(content) THEN content[i] ELSE hole]

openWritableNoTrunc(file) == [exists |-> TRUE, content |-> file.content]

\* os.OpenFile(path, O_WRONLY|O_CREATE|O_TRUNC, mode): create or truncate
openWritable(file) == EmptyFile

RECURSIVE SumLen(_)
SumLen(data) ==
    IF Len(data) = 0 THEN 0 ELSE Len(Head(data)) + SumLen(Tail(data))

RECURSIVE Flatten(_)
Flatten(data) ==
    IF Len(data) = 0 THEN <<>> ELSE Head(data) \o Flatten(Tail(data))

Prefix(s, n) == [i \in 1..n |-> s[i]]

----------------------------------------------------------------------------
(* Construction *)

\* an os.FileMode: the ModeDir bit and the permission bits (0666 = 438,
\* 0755 = 493, 0644 = 420, 0600 = 384, 0700 = 448)
FileMode(perm) == [dir |-> FALSE, perm |-> perm]
ModeDirOr(mode) == [mode EXCEPT !.dir = TRUE]

defaultNewFileMode == FileMode(438)
defaultNewDirectoryMode == ModeDirOr(FileMode(493))

\* the modes callers set: the defaults, 0644, 0600 and ModeDir|0700
FileModes == {defaultNewFileMode, FileMode(420), FileMode(384)}
DirectoryModes == {defaultNewDirectoryMode, ModeDirOr(FileMode(448))}

\* a WriterOptions argument is nil or a reference to a writerOptions object
NilRef == 0

\* NewWriterOptions(): &writerOptions{defaults}
NewWriterOptions ==
    [newFileMode |-> defaultNewFileMode,
     newDirectoryMode |-> defaultNewDirectoryMode]

NewFileModeInPlace(heap, o, value) ==
    [heap |-> [heap EXCEPT ![o].newFileMode = value], ret |-> o]

\* opts := *o; opts.newFileMode = value; return &opts
NewFileMode(heap, o, value) ==
    [heap |-> Append(heap, [heap[o] EXCEPT !.newFileMode = value]),
     ret |-> Len(heap) + 1]

GetNewFileMode(heap, o) == heap[o].newFileMode

NewDirectoryModeInPlace(heap, o, value) ==
    [heap |-> [heap EXCEPT ![o].newDirectoryMode = value], ret |-> o]

\* opts := *o; opts.newDirectoryMode = value; return &opts
NewDirectoryMode(heap, o, value) ==
    [heap |-> Append(heap, [heap[o] EXCEPT !.newDirectoryMode = value]),
     ret |-> Len(heap) + 1]

GetNewDirectoryMode(heap, o) == heap[o].newDirectoryMode

NewWriterDefaultModes(blockSize, heap, options) ==
    [blockSize |-> blockSize,
     newFileMode |-> defaultNewFileMode,
     newDirectoryMode |-> defaultNewDirectoryMode,
     start |-> 0,
     currIdx |-> 0,
     checkpointFilePath |-> NoBlock,
     infoFd |-> NilFd,
     indexFd |-> NilFd,
     dataFd |-> NilFd]

\* if options == nil { options = NewWriterOptions() }; return &writer{...}
NewWriter(blockSize, heap, options) ==
    [blockSize |-> blockSize,
     newFileMode |-> IF options = NilRef
                     THEN GetNewFileMode(<<NewWriterOptions>>, 1)
                     ELSE GetNewFileMode(heap, options),
     newDirectoryMode |-> IF options = NilRef
                          THEN GetNewDirectoryMode(<<NewWriterOptions>>, 1)
                          ELSE GetNewDirectoryMode(heap, options),
     start |-> 0,
     currIdx |-> 0,
     checkpointFilePath |-> NoBlock,
     infoFd |-> NilFd,
     indexFd |-> NilFd,
     dataFd |-> NilFd]

NoCall == [w |-> "none", op |-> "none", err |-> FALSE, size |-> 0,
           blk |-> NoBlock, events |-> <<>>, fault |-> "none"]

NewCycle == [st |-> "Unopened", active |-> FALSE, blk |-> NoBlock,
             nOk |-> 0, nFail |-> 0, written |-> <<>>]

Init ==
    /\ opt = <<>>
    /\ \E bs \in BlockSizes : wr = [w \in Writers |-> NewWriter(bs, opt, NilRef)]
    /\ fs = [b \in Blocks |-> [info |-> NoFile, index |-> NoFile,
                               data |-> NoFile, cp |-> FALSE]]
    /\ dirs = {}
    /\ last = NoCall
    /\ cyc = [w \in Writers |-> NewCycle]
    /\ calls = 0
    /\ faults = 0

\* A call may hit an I/O failure only while the failure budget lasts
MayFail(f) == f = "none" \/ faults < MaxFaults
Count(f) == IF f = "none" THEN faults ELSE faults + 1

----------------------------------------------------------------------------
(* Open *)

Perms == {p \in [1..3 -> 1..3] : \A i, j \in 1..3 : i # j => p[i] # p[j]}
\* the iteration order of the file map matters only when an open fails
IdPerm == [i \in 1..3 |-> i]
OpenFaults == {"none", "mkdir", "open1", "open2", "open3"}
FailPos(f) == CASE f = "open1" -> 1 [] f = "open2" -> 2 [] f = "open3" -> 3
                [] OTHER -> 4

\* Open resets the entry counter
resetCurrIdx(rec) == [rec EXCEPT !.currIdx = 0]

\* openFiles: opens the files of the map in iteration order ord; when the
\* k-th open fails, every handle held by the writer is closed.
openFilesFs(files, ord, k) ==
    [info  |-> IF \E i \in 1..3 : i < k /\ Kinds[ord[i]] = "info"
               THEN openWritable(files.info) ELSE files.info,
     index |-> IF \E i \in 1..3 : i < k /\ Kinds[ord[i]] = "index"
               THEN openWritable(files.index) ELSE files.index,
     data  |-> IF \E i \in 1..3 : i < k /\ Kinds[ord[i]] = "data"
               THEN openWritable(files.data) ELSE files.data,
     cp    |-> files.cp]

openFilesFdLeak(old, b, kind, ord, k) ==
    IF \E i \in 1..3 : i < k /\ Kinds[ord[i]] = kind THEN OpenFd(b) ELSE old

openFilesFd(old, b, kind, ord, k) ==
    LET opened == \E i \in 1..3 : i < k /\ Kinds[ord[i]] = kind
        fd == IF opened THEN OpenFd(b) ELSE old
    IN IF k <= 3 THEN CloseFd(fd) ELSE fd

\* the steps of an Open: the directory, the files opened, the failing open
OpenEvents(ord, k) ==
    <<"mkdir">>
    \o SelectSeq(Kinds, LAMBDA kind : \E i \in 1..3 : i < k /\ Kinds[ord[i]] = kind)
    \o (IF k <= 3 THEN <<"openfail">> ELSE <<>>)

Open(w, shard, blockStart, ord, f) ==
    /\ calls < MaxCalls
    /\ MayFail(f)
    /\ LET b == filepathFromTime(ShardDirPath(shard), blockStart)
           k == FailPos(f)
       IN IF f = "mkdir"
          THEN /\ UNCHANGED <<wr, fs, dirs, cyc>>
               /\ last' = [w |-> w, op |-> "Open", err |-> TRUE, size |-> 0,
                           blk |-> b, events |-> <<"mkdirfail">>, fault |-> f]
          ELSE /\ dirs' = dirs \cup {shard}
               /\ wr' = [wr EXCEPT ![w] =
                         [resetCurrIdx(@) EXCEPT
                            !.start = blockStart,
                            !.checkpointFilePath = b,
                            !.infoFd = openFilesFd(@, b, "info", ord, k),
                            !.indexFd = openFilesFd(@, b, "index", ord, k),
                            !.dataFd = openFilesFd(@, b, "data", ord, k)]]
               /\ fs' = [fs EXCEPT ![b] = openFilesFs(@, ord, k)]
               /\ last' = [w |-> w, op |-> "Open", err |-> (k <= 3), size |-> 0,
                           blk |-> b, events |-> OpenEvents(ord, k), fault |-> f]
               /\ cyc' = [cyc EXCEPT ![w] =
                          IF k <= 3 THEN [@ EXCEPT !.active = FALSE]
                          ELSE [st |-> "Open", active |-> TRUE, blk |-> b,
                                nOk |-> 0, nFail |-> 0, written |-> <<>>]]
    /\ calls' = calls + 1
    /\ UNCHANGED opt
    /\ faults' = Count(f)

OpenAny ==
    \E w \in DOMAIN wr, shard \in Shards, blockStart \in Starts,
       f \in OpenFaults :
          /\ <<shard, blockStart>> \in Blocks
          /\ \E ord \in IF f \in {"open2", "open3"} THEN Perms ELSE {IdPerm} :
                Open(w, shard, blockStart, ord, f)

----------------------------------------------------------------------------
(* Write / WriteAll *)

NoFault == [at |-> "none", j |-> 0, n |-> 0]

\* the I/O failures a WriteAll of data can meet: a data write that stops after
\* n bytes of segment j, or an index write that appends nothing (0) or a torn
\* record (1)
WriteFaults(data) ==
    {NoFault}
    \cup {[at |-> "data", j |-> j, n |-> n] :
              j \in DOMAIN data, n \in 0..1}
    \cup {[at |-> "index", j |-> 0, n |-> n] : n \in 0..1}

ValidFault(data, flt) ==
    flt.at = "data" => (flt.j \in DOMAIN data /\ flt.n < Len(data[flt.j]))

ContentOf(fd, kind) == IF fd.st = "open" THEN fs[fd.blk][kind].content ELSE <<>>

TotalSizeFirstOnly(data) == IF Len(data) = 0 THEN 0 ELSE Len(data[1])

\* size := sum of len(d)
TotalSize(data) == SumLen(data)

IsNoopNever(size) == size < 0

\* if size == 0 { return nil }
IsNoop(size) == size = 0

\* writeData(d): w.dataFd.Write(d); a failing write leaves the first n bytes
writeData(fd, content, d, n) ==
    [fd |-> [fd EXCEPT !.off = @ + n],
     content |-> WriteAt(content, fd.off, Prefix(d, n), HoleByte)]

writeSegmentsRepair(fd, content, data, j, flt) ==
    IF fd.st # "open"
    THEN [fd |-> fd, content |-> content, err |-> TRUE]
    ELSE IF flt.at = "data"
    THEN [fd |-> [fd EXCEPT !.off = 0], content |-> <<>>, err |-> TRUE]
    ELSE LET r == writeData(fd, content, Flatten(data), Len(Flatten(data)))
         IN [fd |-> r.fd, content |-> r.content, err |-> FALSE]

writeSegmentsLastOnly(fd, content, data, j, flt) ==
    IF fd.st # "open"
    THEN [fd |-> fd, content |-> content, err |-> TRUE]
    ELSE LET r == writeData(fd, content, data[Len(data)], Len(data[Len(data)]))
         IN [fd |-> r.fd, content |-> r.content, err |-> FALSE]

\* for _, d := range data { if err := w.writeData(d); err != nil { return err } }
RECURSIVE writeSegments(_, _, _, _, _)
writeSegments(fd, content, data, j, flt) ==
    IF j > Len(data)
    THEN [fd |-> fd, content |-> content, err |-> FALSE]
    ELSE IF fd.st # "open"
    THEN [fd |-> fd, content |-> content, err |-> TRUE]
    ELSE IF flt.at = "data" /\ flt.j = j
    THEN LET r == writeData(fd, content, data[j], flt.n)
         IN [fd |-> r.fd, content |-> r.content, err |-> TRUE]
    ELSE LET r == writeData(fd, content, data[j], Len(data[j]))
         IN writeSegments(r.fd, r.content, data, j + 1, flt)

NewEntryOneBased(currIdx, size) == IndexRec(currIdx + 1, size)

\* entry.Idx = w.currIdx; entry.Size = size
NewEntry(currIdx, size) == IndexRec(currIdx, size)

\* the index record goes to the index file after the entry's data
writeIndex(fd, content, entry, flt) ==
    IF fd.st # "open"
    THEN [fd |-> fd, content |-> content, err |-> TRUE]
    ELSE IF flt.at = "index"
    THEN IF flt.n = 0
         THEN [fd |-> fd, content |-> content, err |-> TRUE]
         ELSE [fd |-> [fd EXCEPT !.off = @ + 1],
               content |-> WriteAt(content, fd.off, <<TornIndex>>, HoleIndex),
               err |-> TRUE]
    ELSE [fd |-> [fd EXCEPT !.off = @ + 1],
          content |-> WriteAt(content, fd.off, <<entry>>, HoleIndex),
          err |-> FALSE]

nextIdxStuck(currIdx) == currIdx

\* w.currIdx++
nextIdx(currIdx) == currIdx + 1

SetContent(files, fd, kind, content) ==
    IF fd.st = "open"
    THEN [files EXCEPT ![fd.blk] = [@ EXCEPT ![kind] = [@ EXCEPT !.content = content]]]
    ELSE files

WriteAllBody(w, data, flt, op) ==
    LET rec == wr[w]
        size == TotalSize(data)
        dres == writeSegments(rec.dataFd, ContentOf(rec.dataFd, "data"), data, 1, flt)
        ires == writeIndex(rec.indexFd, ContentOf(rec.indexFd, "index"),
                           NewEntry(rec.currIdx, size), flt)
        fs1 == SetContent(fs, rec.dataFd, "data", dres.content)
        fs2 == SetContent(fs1, rec.indexFd, "index", ires.content)
    IN IF IsNoop(size)
       THEN /\ flt = NoFault
            /\ UNCHANGED <<wr, fs, cyc>>
            /\ last' = [w |-> w, op |-> op, err |-> FALSE, size |-> size,
                        blk |-> rec.checkpointFilePath, events |-> <<>>,
                        fault |-> "none"]
       ELSE /\ flt # NoFault => (rec.dataFd.st = "open" /\ rec.indexFd.st = "open")
            /\ IF dres.err
               THEN /\ wr' = [wr EXCEPT ![w] = [@ EXCEPT !.dataFd = dres.fd]]
                    /\ fs' = fs1
                    /\ last' = [w |-> w, op |-> op, err |-> TRUE, size |-> size,
                                blk |-> rec.checkpointFilePath,
                                events |-> <<"data">>, fault |-> flt.at]
               ELSE /\ wr' = [wr EXCEPT ![w] =
                              [@ EXCEPT !.dataFd = dres.fd,
                                        !.indexFd = ires.fd,
                                        !.currIdx = IF ires.err THEN @
                                                    ELSE nextIdx(@)]]
                    /\ fs' = fs2
                    /\ last' = [w |-> w, op |-> op, err |-> ires.err,
                                size |-> size, blk |-> rec.checkpointFilePath,
                                events |-> <<"data", "index">>,
                                fault |-> flt.at]
            /\ cyc' = [cyc EXCEPT ![w] =
                       IF last'.err
                       THEN [@ EXCEPT !.nFail = @ + 1]
                       ELSE [@ EXCEPT !.nOk = @ + 1,
                                      !.written = @ \o Flatten(data)]]

WriteAll(w, key, data, flt) ==
    /\ calls < MaxCalls
    /\ ValidFault(data, flt)
    /\ MayFail(flt.at)
    /\ WriteAllBody(w, data, flt, "WriteAll")
    /\ calls' = calls + 1
    /\ UNCHANGED opt
    /\ faults' = Count(flt.at)
    /\ UNCHANGED dirs

\* if len(data) == 0 { return nil }; return w.WriteAll(key, [][]byte{data})
\* (a non-empty Write is recorded as the WriteAll call it makes)
Write(w, key, d, flt) ==
    /\ calls < MaxCalls
    /\ ValidFault(<<d>>, flt)
    /\ MayFail(flt.at)
    /\ IF Len(d) = 0
       THEN /\ flt = NoFault
            /\ UNCHANGED <<wr, fs, cyc>>
            /\ last' = [w |-> w, op |-> "Write", err |-> FALSE, size |-> 0,
                        blk |-> wr[w].checkpointFilePath, events |-> <<>>,
                        fault |-> "none"]
       ELSE WriteAllBody(w, <<d>>, flt, "WriteAll")
    /\ calls' = calls + 1
    /\ UNCHANGED opt
    /\ faults' = Count(flt.at)
    /\ UNCHANGED dirs

WriteAllAny ==
    \E w \in DOMAIN wr, key \in Keys, data \in SegLists :
       \E flt \in WriteFaults(data) : WriteAll(w, key, data, flt)

WriteAny ==
    \E w \in DOMAIN wr, key \in Keys, d \in Segs :
       \E flt \in WriteFaults(<<d>>) : Write(w, key, d, flt)

----------------------------------------------------------------------------
(* Close *)

CloseFaults == {"none", "marshal", "infoWrite", "infoWriteTorn", "closeInfo",
                "closeIndex", "closeData", "cpOpen", "cpClose"}

BuildInfoStaleStart(rec) == InfoRec(0, rec.blockSize, rec.currIdx)

BuildInfoOffByOne(rec) == InfoRec(rec.start, rec.blockSize, rec.currIdx + 1)

\* info := &schema.IndexInfo{Start, BlockSize, Entries: w.currIdx}
BuildInfo(rec) == InfoRec(rec.start, rec.blockSize, rec.currIdx)

\* w.infoFd.Write(w.infoBuffer.Bytes())
writeInfo(fd, content, info, f) ==
    IF fd.st # "open" \/ f = "infoWrite"
    THEN [fd |-> fd, content |-> content, err |-> TRUE]
    ELSE IF f = "infoWriteTorn"
    THEN [fd |-> [fd EXCEPT !.off = @ + 1],
          content |-> WriteAt(content, fd.off, <<TornInfo>>, HoleInfo),
          err |-> TRUE]
    ELSE [fd |-> [fd EXCEPT !.off = @ + 1],
          content |-> WriteAt(content, fd.off, <<info>>, HoleInfo),
          err |-> FALSE]

CloseArgsNoData(rec) == <<[kind |-> "info", fd |-> rec.infoFd],
                          [kind |-> "index", fd |-> rec.indexFd]>>

\* the arguments of closeFiles(w.infoFd, w.indexFd, w.dataFd)
CloseArgs(rec) == <<[kind |-> "info", fd |-> rec.infoFd],
                    [kind |-> "index", fd |-> rec.indexFd],
                    [kind |-> "data", fd |-> rec.dataFd]>>

CloseFaultPos(args, f) ==
    LET kind == CASE f = "closeInfo" -> "info" [] f = "closeIndex" -> "index"
                  [] f = "closeData" -> "data" [] OTHER -> "none"
    IN IF \E i \in DOMAIN args : args[i].kind = kind
       THEN CHOOSE i \in DOMAIN args : args[i].kind = kind ELSE Len(args) + 1

\* closeFiles: closes the handles in argument order and returns the first error
closeFiles(args, k) ==
    LET bad(i) == args[i].fd.st # "open" \/ i = k
        first == IF \E i \in DOMAIN args : bad(i)
                 THEN CHOOSE i \in DOMAIN args :
                         bad(i) /\ \A j \in 1..(i - 1) : ~bad(j)
                 ELSE Len(args) + 1
        n == IF first <= Len(args) THEN first ELSE Len(args)
    IN [fds |-> [i \in DOMAIN args |->
                   [kind |-> args[i].kind,
                    fd |-> IF i <= n THEN CloseFd(args[i].fd) ELSE args[i].fd]],
        err |-> first <= Len(args),
        events |-> [i \in 1..n |->
                      IF i = first THEN "closefail_" \o args[i].kind
                      ELSE "close_" \o args[i].kind]]

FdOf(fds, kind, old) ==
    IF \E i \in DOMAIN fds : fds[i].kind = kind
    THEN fds[CHOOSE i \in DOMAIN fds : fds[i].kind = kind].fd ELSE old

\* if _, err := w.infoFd.Write(...); err != nil { return err }
StopOnInfoErr(err) == err

StopOnCloseErrNever(err) == FALSE

\* if err := closeFiles(...); err != nil { return err }
StopOnCloseErr(err) == err

\* fd, err := w.openWritable(w.checkpointFilePath); fd.Close(); return nil
writeCheckpointFile(files, path, f) ==
    IF f = "cpOpen" \/ path = NoBlock
    THEN [fs |-> files, err |-> TRUE, events |-> <<"checkpointfail">>]
    ELSE [fs |-> [files EXCEPT ![path] = [@ EXCEPT !.cp = TRUE]],
          err |-> FALSE, events |-> <<"checkpoint">>]

CloseResult(rec, files, f) ==
    LET info == BuildInfo(rec)
        wres == writeInfo(rec.infoFd,
                          IF rec.infoFd.st = "open"
                          THEN files[rec.infoFd.blk].info.content ELSE <<>>,
                          info, f)
        rec1 == [rec EXCEPT !.infoFd = wres.fd]
        fs1 == IF rec.infoFd.st = "open"
               THEN [files EXCEPT ![rec.infoFd.blk] =
                       [@ EXCEPT !.info = [@ EXCEPT !.content = wres.content]]]
               ELSE files
        args == CloseArgs(rec1)
        cres == closeFiles(args, CloseFaultPos(args, f))
        rec2 == [rec1 EXCEPT !.infoFd = FdOf(cres.fds, "info", @),
                             !.indexFd = FdOf(cres.fds, "index", @),
                             !.dataFd = FdOf(cres.fds, "data", @)]
        pres == writeCheckpointFile(fs1, rec.checkpointFilePath, f)
    IN IF f = "marshal"
       THEN [rec |-> rec, fs |-> files, err |-> TRUE, events |-> <<"marshalfail">>]
       ELSE IF StopOnInfoErr(wres.err)
       THEN [rec |-> rec1, fs |-> fs1, err |-> TRUE, events |-> <<"writeInfofail">>]
       ELSE IF StopOnCloseErr(cres.err)
       THEN [rec |-> rec2, fs |-> fs1, err |-> TRUE,
             events |-> <<"writeInfo">> \o cres.events]
       ELSE [rec |-> rec2, fs |-> pres.fs, err |-> pres.err,
             events |-> <<IF wres.err THEN "writeInfofail" ELSE "writeInfo">>
                        \o cres.events \o pres.events]

Close(w, f) ==
    /\ calls < MaxCalls
    /\ MayFail(f)
    /\ f # "none" => wr[w].infoFd.st = "open"
    /\ LET res == CloseResult(wr[w], fs, f)
       IN /\ wr' = [wr EXCEPT ![w] = res.rec]
          /\ fs' = res.fs
          /\ last' = [w |-> w, op |-> "Close", err |-> res.err, size |-> 0,
                      blk |-> wr[w].checkpointFilePath, events |-> res.events,
                      fault |-> f]
          /\ cyc' = [cyc EXCEPT ![w] =
                     [@ EXCEPT !.st = IF @ = "Unopened" THEN @ ELSE "Closed",
                               !.active = IF res.err THEN @ ELSE FALSE]]
    /\ calls' = calls + 1
    /\ UNCHANGED opt
    /\ faults' = Count(f)
    /\ UNCHANGED dirs

CloseAny == \E w \in DOMAIN wr, f \in CloseFaults : Close(w, f)

----------------------------------------------------------------------------
Next == OpenAny \/ WriteAllAny \/ WriteAny \/ CloseAny

Spec == Init /\ [][Next]_vars

----------------------------------------------------------------------------
(* Two writer instances constructed on the same filePathPrefix, both used   *)
(* for the same (shard, blockStart)                                         *)

MultiWriters == {"w1", "w2"}
MultiData == {<< <<1>> >>, << <<2, 1>> >>}

InitMulti ==
    /\ opt = <<>>
    /\ \E bs \in BlockSizes :
          wr = [w \in MultiWriters |-> NewWriter(bs, opt, NilRef)]
    /\ fs = [b \in Blocks |-> [info |-> NoFile, index |-> NoFile,
                               data |-> NoFile, cp |-> FALSE]]
    /\ dirs = {}
    /\ last = NoCall
    /\ cyc = [w \in MultiWriters |-> NewCycle]
    /\ calls = 0
    /\ faults = 0

OpenMulti == \E w \in DOMAIN wr : Open(w, 0, 0, IdPerm, "none")

WriteAllMulti ==
    \E w \in DOMAIN wr, key \in Keys, data \in MultiData :
        WriteAll(w, key, data, NoFault)

CloseMulti == \E w \in DOMAIN wr : Close(w, "none")

NextMulti == OpenMulti \/ WriteAllMulti \/ CloseMulti

SpecMulti == InitMulti /\ [][NextMulti]_vars

----------------------------------------------------------------------------
(* Options and construction: callers derive options and build writers *)

OptCall(op, w, o, value, ret) ==
    [w |-> w, op |-> op, recv |-> o, value |-> value, ret |-> ret]

InitOpts ==
    /\ opt = <<NewWriterOptions>>
    /\ \E bs \in BlockSizes : wr = [w \in Writers |-> NewWriter(bs, opt, NilRef)]
    /\ fs = [b \in Blocks |-> [info |-> NoFile, index |-> NoFile,
                               data |-> NoFile, cp |-> FALSE]]
    /\ dirs = {}
    /\ last = OptCall("NewWriter", "w1", NilRef, FileMode(0), NilRef)
    /\ cyc = [w \in Writers |-> NewCycle]
    /\ calls = 0
    /\ faults = 0

SetNewFileMode ==
    \E o \in DOMAIN opt, value \in FileModes :
        /\ Len(opt) < MaxOpts
        /\ opt' = NewFileMode(opt, o, value).heap
        /\ last' = OptCall("NewFileMode", "none", o, value,
                           NewFileMode(opt, o, value).ret)
        /\ UNCHANGED <<wr, fs, dirs, cyc, calls, faults>>

SetNewDirectoryMode ==
    \E o \in DOMAIN opt, value \in DirectoryModes :
        /\ Len(opt) < MaxOpts
        /\ opt' = NewDirectoryMode(opt, o, value).heap
        /\ last' = OptCall("NewDirectoryMode", "none", o, value,
                           NewDirectoryMode(opt, o, value).ret)
        /\ UNCHANGED <<wr, fs, dirs, cyc, calls, faults>>

Construct ==
    \E w \in DOMAIN wr, o \in {NilRef} \cup DOMAIN opt :
        /\ wr' = [wr EXCEPT ![w] = NewWriter(@.blockSize, opt, o)]
        /\ last' = OptCall("NewWriter", w, o, FileMode(0), NilRef)
        /\ UNCHANGED <<opt, fs, dirs, cyc, calls, faults>>

NextOpts == SetNewFileMode \/ SetNewDirectoryMode \/ Construct

SpecOpts == InitOpts /\ [][NextOpts]_vars
----------------------------------------------------------------------------
(* Properties *)

\* the complete index records of an index file, in file order
Records(content) == SelectSeq(content, LAMBDA c : c.t = "entry")

RECURSIVE SumSizes(_)
SumSizes(recs) ==
    IF Len(recs) = 0 THEN 0 ELSE Head(recs).size + SumSizes(Tail(recs))

HasEvent(e) == \E i \in DOMAIN last.events : last.events[i] = e

HandlesOn(b) ==
    {w \in DOMAIN wr : \E fd \in {wr[w].infoFd, wr[w].indexFd, wr[w].dataFd} :
                          fd.st = "open" /\ fd.blk = b}

\* C1: whenever the checkpoint file of a block exists, the block's info file
\* holds a complete info record, no handle on the block's files is still
\* open, and the record's entries field is the number of index records in the
\* index file.
C1_CheckpointImpliesComplete ==
    \A b \in Blocks :
        fs[b].cp =>
            /\ HandlesOn(b) = {}
            /\ \E i \in DOMAIN fs[b].info.content :
                  /\ fs[b].info.content[i].t = "info"
                  /\ fs[b].info.content[i].entries =
                        Len(Records(fs[b].index.content))

\* C2: from a successful Open of a block until a Close of that cycle
\* succeeds, the block's checkpoint file is absent.
C2_NoCheckpointWhileOpen ==
    \A w \in DOMAIN wr : cyc[w].active => ~fs[cyc[w].blk].cp

\* C3: a Close that creates the checkpoint has first written the info record
\* and closed the info, index and data handles without error, and creating
\* the checkpoint is the last file-system step of a successful Close.
C3_CheckpointIsLastStep ==
    last.op = "Close" =>
        /\ HasEvent("checkpoint") =>
              /\ last.events = <<"writeInfo", "close_info", "close_index",
                                 "close_data", "checkpoint">>
              /\ wr[last.w].infoFd.st = "closed"
              /\ wr[last.w].indexFd.st = "closed"
              /\ wr[last.w].dataFd.st = "closed"
              /\ \E i \in DOMAIN fs[last.blk].info.content :
                    fs[last.blk].info.content[i] = BuildInfo(wr[last.w])
        /\ ~last.err => last.events[Len(last.events)] = "checkpoint"

C3_Witness ==
    /\ last.op = "Close"
    /\ ~last.err
    /\ fs[last.blk].cp
    /\ wr[last.w].currIdx > 0

CloseKinds == <<"info", "index", "data">>
CloseEventKind(e) ==
    CASE e \in {"close_info", "closefail_info"} -> "info"
      [] e \in {"close_index", "closefail_index"} -> "index"
      [] e \in {"close_data", "closefail_data"} -> "data"
      [] OTHER -> "none"
CloseEvents == SelectSeq(last.events, LAMBDA e : CloseEventKind(e) # "none")
FailedStep ==
    \E i \in DOMAIN last.events :
        last.events[i] \in {"writeInfofail", "closefail_info",
                            "closefail_index", "closefail_data"}

\* C4: a Close in which the info write or the close of a handle fails returns
\* an error at that first failure and creates no checkpoint; the handles are
\* closed in the order info, index, data.
C4_FailedCloseNoCheckpoint ==
    last.op = "Close" =>
        /\ FailedStep =>
              /\ last.err
              /\ ~HasEvent("checkpoint")
              /\ last.events[Len(last.events)] \in
                    {"writeInfofail", "closefail_info", "closefail_index",
                     "closefail_data"}
        /\ \A i \in DOMAIN CloseEvents :
              CloseEventKind(CloseEvents[i]) = CloseKinds[i]

C4_Witness ==
    /\ last.op = "Close"
    /\ last.err
    /\ HasEvent("closefail_data")
    /\ ~fs[last.blk].cp

\* C5: after n successful non-empty writes since Open and a successful Close,
\* the checkpoint file exists and the info record written has entries = n.
C5_EntriesCountWrites ==
    (last.op = "Close" /\ ~last.err) =>
        /\ fs[last.blk].cp
        /\ Len(fs[last.blk].info.content) > 0
        /\ LET info == fs[last.blk].info.content[Len(fs[last.blk].info.content)]
           IN /\ info.t = "info"
              /\ info.entries = cyc[last.w].nOk

C5_Witness ==
    /\ last.op = "Close"
    /\ ~last.err
    /\ cyc[last.w].nOk = 2
    /\ fs[last.blk].cp

\* C6: a Write or WriteAll of total length 0 returns no error, changes no
\* file and leaves the writer, currIdx included, as it was.
C6_EmptyWriteIsNoop ==
    [][(last'.op \in {"Write", "WriteAll"} /\ last'.size = 0 /\ calls' # calls)
          => (~last'.err /\ fs' = fs /\ wr' = wr /\ dirs' = dirs)]_vars

C6_Witness ==
    /\ last.op \in {"Write", "WriteAll"}
    /\ last.size = 0
    /\ ~last.err
    /\ cyc[last.w].active
    /\ wr[last.w].currIdx = 1
    /\ Len(fs[last.blk].data.content) > 0

\* the writer is between its Open and the return of its successful Close
InCycle(w) == cyc[w].active \/ (last.op = "Close" /\ ~last.err /\ last.w = w)

Numbered(recs) == \A i \in DOMAIN recs : recs[i].idx = i - 1

\* C7: between Open and Close the index file holds exactly currIdx records,
\* the i-th of them with index i; after Close the same holds for the entries
\* count of the info record.
C7_IndexContiguous ==
    /\ \A w \in DOMAIN wr :
          cyc[w].active =>
              LET recs == Records(fs[cyc[w].blk].index.content)
              IN Len(recs) = wr[w].currIdx /\ Numbered(recs)
    /\ (last.op = "Close" /\ ~last.err) =>
          LET recs == Records(fs[last.blk].index.content)
              info == fs[last.blk].info.content[Len(fs[last.blk].info.content)]
          IN Len(recs) = info.entries /\ Numbered(recs)

C7_Witness ==
    \E w \in DOMAIN wr :
        /\ cyc[w].active
        /\ wr[w].currIdx = 2
        /\ Len(fs[cyc[w].blk].index.content) = 2

C9_DataIsConcatenation ==
    \A w \in DOMAIN wr :
        (InCycle(w) /\ cyc[w].nFail = 0) =>
            fs[cyc[w].blk].data.content = cyc[w].written

C9_Witness ==
    \E w \in DOMAIN wr :
        /\ cyc[w].active
        /\ cyc[w].nFail = 0
        /\ cyc[w].nOk = 2
        /\ fs[cyc[w].blk].data.content = <<1, 1, 2, 1>>

\* C10: once Close has returned on a writer, a later Open, Write or WriteAll
\* on it changes no file and does not reopen the writer.
C10_ClosedIsTerminal ==
    [][\A w \in DOMAIN wr :
          (cyc[w].st = "Closed" /\ last'.w = w /\ calls' # calls
             /\ last'.op \in {"Open", "Write", "WriteAll"})
          => (fs' = fs /\ cyc'[w].st = "Closed"
                /\ wr'[w].infoFd.st # "open" /\ wr'[w].indexFd.st # "open"
                /\ wr'[w].dataFd.st # "open")]_vars

\* the info, index and data files that exist keep their content, and every
\* checkpoint file stays as it was
ContentsKept ==
    \A b \in Blocks :
        /\ fs'[b].cp = fs[b].cp
        /\ \A kind \in {"info", "index", "data"} :
              fs[b][kind].exists => fs'[b][kind] = fs[b][kind]

\* C11: a Write/WriteAll on a writer that was never opened, and an Open on a
\* writer that is open with no Close in between, returns an error or leaves
\* the content of every existing fileset file unchanged.
C11_UsageErrorKeepsFiles ==
    [][\A w \in DOMAIN wr :
          (last'.w = w /\ calls' # calls
             /\ \/ cyc[w].st = "Unopened" /\ last'.op \in {"Write", "WriteAll"}
                \/ cyc[w].st = "Open" /\ last'.op = "Open")
          => (last'.err \/ ContentsKept)]_vars

\* C12: when an open of the info, index or data file fails during Open, Open
\* returns an error and the writer holds no open handle afterwards.
C12_FailedOpenClosesHandles ==
    (last.op = "Open" /\ HasEvent("openfail")) =>
        /\ last.err
        /\ wr[last.w].infoFd.st # "open"
        /\ wr[last.w].indexFd.st # "open"
        /\ wr[last.w].dataFd.st # "open"

C12_Witness ==
    /\ last.op = "Open"
    /\ last.fault = "open3"
    /\ last.events = <<"mkdir", "index", "data", "openfail">>
    /\ wr[last.w].indexFd.st = "closed"
    /\ wr[last.w].dataFd.st = "closed"

LastInfo(b) == fs[b].info.content[Len(fs[b].info.content)]

\* C13: a successful Open leaves currIdx = 0 and start = its blockStart, and
\* the info record of the following Close has the start of the most recent
\* Open, the blockSize given to NewWriter and entries counting the writes
\* made since that Open.
C13_OpenResetsCycle ==
    /\ (last.op = "Open" /\ ~last.err) =>
          /\ wr[last.w].currIdx = 0
          /\ wr[last.w].start = last.blk[2]
    /\ (last.op = "Close" /\ ~last.err) =>
          /\ Len(fs[last.blk].info.content) > 0
          /\ LastInfo(last.blk).start = cyc[last.w].blk[2]
          /\ LastInfo(last.blk).blockSize \in BlockSizes
          /\ LastInfo(last.blk).blockSize = wr[last.w].blockSize
          /\ LastInfo(last.blk).entries = cyc[last.w].nOk
          /\ last.blk = cyc[last.w].blk

\* the writer wrote to block <<0, 0>> before, then opened <<1, 1>> and closed
C13_Witness ==
    /\ last.op = "Close"
    /\ ~last.err
    /\ last.blk = <<1, 1>>
    /\ Len(fs[<<0, 0>>].index.content) = 1
    /\ LastInfo(<<1, 1>>) = InfoRec(1, wr[last.w].blockSize, 0)

IsPrefix(a, b) == Len(a) <= Len(b) /\ \A i \in DOMAIN a : a[i] = b[i]

\* every file keeps the bytes it had: content is only ever appended to
OnlyAppended ==
    \A b \in Blocks : \A kind \in {"info", "index", "data"} :
        /\ fs[b][kind].exists => fs'[b][kind].exists
        /\ IsPrefix(fs[b][kind].content, fs'[b][kind].content)

\* C14: a non-empty WriteAll adds exactly 1 to currIdx when it returns no
\* error; when it returns an error currIdx is unchanged and the bytes already
\* in the index and data files stay.
C14_IdxAdvancesIffSuccess ==
    [][\A w \in DOMAIN wr :
          (last'.w = w /\ calls' # calls /\ last'.op = "WriteAll"
             /\ last'.size > 0)
          => /\ ~last'.err => wr'[w].currIdx = wr[w].currIdx + 1
             /\ last'.err => wr'[w].currIdx = wr[w].currIdx
             /\ OnlyAppended]_vars

\* a failed WriteAll after a successful one left its first segment behind
C14_Witness ==
    /\ last.op = "WriteAll"
    /\ last.err
    /\ last.fault = "data"
    /\ wr[last.w].currIdx = 1
    /\ Len(fs[last.blk].data.content) = 2
    /\ Len(fs[last.blk].index.content) = 1

\* C15: every I/O failure inside Open, WriteAll or Close makes the call
\* return an error.
C15_FailureReturnsError ==
    last.fault # "none" => last.err

FileKinds == {"info", "index", "data"}

\* no info, index, data or checkpoint file is removed
NoFileRemoved ==
    \A b \in Blocks :
        /\ fs[b].cp => fs'[b].cp
        /\ \A kind \in FileKinds : fs[b][kind].exists => fs'[b][kind].exists

\* C18 as stated: a call of Open, WriteAll or Close that returns an error
\* removes no file and leaves every byte already in a file in place.
C18_FailedCallKeepsBytes ==
    [][(calls' # calls /\ last'.err) => (NoFileRemoved /\ OnlyAppended)]_vars

\* C18 amended: a failed WriteAll or Close removes no file and only appends;
\* a failed Open removes no file and changes nothing except that the files of
\* its own block that it opened before the failure are truncated.
C18_FailedCallKeepsBytesExceptOpen ==
    [][(calls' # calls /\ last'.err) =>
          /\ NoFileRemoved
          /\ last'.op \in {"Write", "WriteAll", "Close"} => OnlyAppended
          /\ last'.op = "Open" =>
                \A b \in Blocks : \A kind \in FileKinds :
                    \/ fs'[b][kind] = fs[b][kind]
                    \/ b = last'.blk /\ fs'[b][kind] = EmptyFile]_vars

\* a failed Open truncated the data file and left the written index file
C18_Witness ==
    /\ last.op = "Open"
    /\ last.err
    /\ last.events = <<"mkdir", "data", "openfail">>
    /\ fs[last.blk].data = EmptyFile
    /\ Len(fs[last.blk].index.content) = 1

\* C19: Open creates or truncates only the info, index and data files of its
\* own block, leaves that block's checkpoint file as it was and changes no
\* file of another block.
C19_OpenTouchesOwnFilesOnly ==
    [][(calls' # calls /\ last'.op = "Open") =>
          /\ \A b \in Blocks \ {last'.blk} : fs'[b] = fs[b]
          /\ fs'[last'.blk].cp = fs[last'.blk].cp
          /\ \A kind \in FileKinds :
                fs'[last'.blk][kind] \in {fs[last'.blk][kind], EmptyFile}
          /\ ~last'.err =>
                \A kind \in FileKinds : fs'[last'.blk][kind] = EmptyFile]_vars

\* a committed block is opened again: its checkpoint stays, its files are empty
C19_Witness ==
    /\ last.op = "Open"
    /\ ~last.err
    /\ fs[last.blk].cp
    /\ \A kind \in FileKinds : fs[last.blk][kind] = EmptyFile
    /\ \E b \in Blocks \ {last.blk} : ~fs[b].info.exists

\* C16: a setter returns a new options value that holds the mode it was
\* given and the receiver's other mode, and leaves the receiver and every
\* other options value obtained before as they were.
C16_SettersCopyOnWrite ==
    [][/\ last'.op = "NewFileMode" =>
             /\ GetNewFileMode(opt', last'.ret) = last'.value
             /\ GetNewDirectoryMode(opt', last'.ret)
                   = GetNewDirectoryMode(opt, last'.recv)
       /\ last'.op = "NewDirectoryMode" =>
             /\ GetNewDirectoryMode(opt', last'.ret) = last'.value
             /\ GetNewFileMode(opt', last'.ret) = GetNewFileMode(opt, last'.recv)
       /\ last'.op \in {"NewFileMode", "NewDirectoryMode"} =>
             \A o \in DOMAIN opt :
                 /\ o \in DOMAIN opt'
                 /\ GetNewFileMode(opt', o) = GetNewFileMode(opt, o)
                 /\ GetNewDirectoryMode(opt', o) = GetNewDirectoryMode(opt, o)]_vars

\* options derived twice: the first setter changed the file mode, the second
\* changed the directory mode of the result and kept its file mode
C16_Witness ==
    /\ last.op = "NewDirectoryMode"
    /\ last.recv = 2
    /\ last.ret = 3
    /\ GetNewFileMode(opt, 1).perm = 438
    /\ GetNewFileMode(opt, 2).perm = 420
    /\ GetNewFileMode(opt, 3).perm = 420
    /\ GetNewDirectoryMode(opt, 2) # GetNewDirectoryMode(opt, 3)

\* C17: NewWriter with nil options takes file mode 0666 and directory mode
\* ModeDir|0755, with non-nil options the modes the options return, and a
\* setter call on options changes no writer already constructed.
C17_WriterModesFromOptions ==
    [][/\ last'.op = "NewWriter" =>
             /\ last'.recv = NilRef =>
                   /\ wr'[last'.w].newFileMode = [dir |-> FALSE, perm |-> 438]
                   /\ wr'[last'.w].newDirectoryMode = [dir |-> TRUE, perm |-> 493]
             /\ last'.recv # NilRef =>
                   /\ wr'[last'.w].newFileMode = GetNewFileMode(opt, last'.recv)
                   /\ wr'[last'.w].newDirectoryMode
                         = GetNewDirectoryMode(opt, last'.recv)
       /\ last'.op \in {"NewFileMode", "NewDirectoryMode"} => wr' = wr]_vars

\* a writer built from options with file mode 0644, whose options then had a
\* setter called that returned options with file mode 0666
C17_Witness ==
    /\ last.op = "NewFileMode"
    /\ last.recv = 2
    /\ last.value.perm = 438
    /\ GetNewFileMode(opt, 2).perm = 420
    /\ wr["w1"].newFileMode.perm = 420
    /\ GetNewFileMode(opt, 3).perm = 438

\* another writer instance holds open handles on the files of block b
OtherHasOpen(w, b) ==
    \E v \in DOMAIN wr \ {w} :
        /\ wr[v].infoFd = [wr[v].infoFd EXCEPT !.st = "open", !.blk = b]
        /\ wr[v].indexFd = [wr[v].indexFd EXCEPT !.st = "open", !.blk = b]
        /\ wr[v].dataFd = [wr[v].dataFd EXCEPT !.st = "open", !.blk = b]

\* C20: while one writer instance has a block open, an Open of the same
\* block by a second instance succeeds and empties the three files, the
\* first instance's handles stay open on them, and every later write and
\* close of either instance lands in those same files at that instance's
\* own offset.
C20_NoExclusionBetweenWriters ==
    [][\A w \in DOMAIN wr :
          (calls' # calls /\ last'.w = w /\ OtherHasOpen(w, last'.blk)) =>
             LET b == last'.blk
                 n == Len(cyc[w].written)
             IN /\ \A v \in DOMAIN wr \ {w} : wr'[v] = wr[v]
                /\ last'.op = "Open" =>
                      /\ ~last'.err
                      /\ \A kind \in FileKinds : fs'[b][kind] = EmptyFile
                /\ (last'.op = "WriteAll" /\ ~last'.err /\ last'.size > 0) =>
                      /\ Len(fs'[b].data.content) >= wr[w].dataFd.off + last'.size
                      /\ \A i \in 1..last'.size :
                            fs'[b].data.content[wr[w].dataFd.off + i]
                               = cyc'[w].written[n + i]
                      /\ fs'[b].index.content[wr[w].indexFd.off + 1]
                            = IndexRec(wr[w].currIdx, last'.size)
                /\ (last'.op = "Close" /\ ~last'.err) =>
                      /\ fs'[b].cp
                      /\ fs'[b].info.content[wr[w].infoFd.off + 1].t = "info"]_vars

\* the second instance's Open emptied the data file under the first, whose
\* next write landed at its old offset behind a zero-filled gap
C20_Witness ==
    /\ last.op = "WriteAll"
    /\ last.w = "w1"
    /\ ~last.err
    /\ wr["w1"].dataFd.st = "open"
    /\ wr["w2"].dataFd.st = "open"
    /\ wr["w1"].dataFd.blk = wr["w2"].dataFd.blk
    /\ wr["w2"].dataFd.off = 0
    /\ fs[last.blk].data.content = <<HoleByte, 1>>

====
